---- MODULE Spec2Model ----
(***************************************************************************)
(* State-machine model of terraform-provider-githubrepos:                  *)
(*   - provider.go      githubreposProvider.Configure  (configuration      *)
(*                      resolution),                                       *)
(*   - all_resource.go  allResource.Configure, readRepositories and the    *)
(*                      Create / Read / Update / Delete handlers.          *)
(* Two specifications are given: SpecConfigure (one provider activation    *)
(* followed by the resource's Configure) and Spec (the resource life       *)
(* cycle against a paginated remote listing).                              *)
(***************************************************************************)
EXTENDS Integers, Sequences, FiniteSets, TLC

VARIABLES
    config,     \* githubreposProviderModel read from req.Config
    env,        \* process environment: GITHUB_TOKEN, GITHUB_OWNER
    pcP,        \* where githubreposProvider.Configure stands / returned
    token,      \* local `token` of Configure
    owner,      \* local `owner` of Configure
    provResp,   \* provider.ConfigureResponse
    r,          \* the allResource receiver: owner, client
    resCfg,     \* resource.ConfigureResponse of allResource.Configure
    remote,     \* the account's listing as the remote service pages it
    stored,     \* the state Terraform holds for the resource
    pc,         \* where the running life-cycle handler stands
    req,        \* the handler's request: operation and the map it loads
    state,      \* local `state.Repos` of the handler
    opt,        \* local `opt` of readRepositories
    allRepos,   \* local `allRepos` of readRepositories
    calls,      \* the page requests this call has issued, with their answers
    err,        \* readRepositories' return value
    resp        \* the handler's response: Diagnostics, State

provVars == <<config, env, pcP, token, owner, provResp>>
resVars == <<r, resCfg>>
opVars == <<remote, stored, pc, req, state, opt, allRepos, calls, err, resp>>
vars == <<config, env, pcP, token, owner, provResp, r, resCfg,
          remote, stored, pc, req, state, opt, allRepos, calls, err, resp>>

----------------------------------------------------------------------------
(* Bounds and program constants *)

\* largest number of records in the remote listing
MaxRecords == 3

\* github.ListOptions{PerPage: 100}
PerPage == 100

----------------------------------------------------------------------------
(* Framework values: types.String, types.Int64, diagnostics *)

StringNull == [state |-> "null", value |-> ""]
StringUnknown == [state |-> "unknown", value |-> ""]
StringValue(s) == [state |-> "known", value |-> s]

Int64Null == [state |-> "null", value |-> 0]
Int64Unknown == [state |-> "unknown", value |-> 0]
Int64Value(i) == [state |-> "known", value |-> i]

IsUnknown(v) == v.state = "unknown"
IsNull(v) == v.state = "null"
ValueString(v) == v.value

AttributeError(path, summary) ==
    [severity |-> "error", path |-> path, summary |-> summary, detail |-> <<>>]
AddError(summary, detail) ==
    [severity |-> "error", path |-> "", summary |-> summary, detail |-> detail]

HasError(diags) == \E i \in 1..Len(diags) : diags[i].severity = "error"

NilData == [type |-> "nil"]

----------------------------------------------------------------------------
(* provider.go: githubreposProvider.Configure *)

\* req.Config.Get into two types.String fields: null and unknown values are
\* representable, so decoding adds no diagnostic.
ConfigGet == <<>>

UnknownTokenDiag == AttributeError("token", "Unknown GitHub API Token")
UnknownOwnerDiag == AttributeError("owner", "Unknown GitHub Organization")
MissingTokenDiag == AttributeError("token", "Missing GitHub Token")
MissingOwnerDiag == AttributeError("owner", "Missing GitHub Organization")

\* lines 94-110: one attribute error per unknown field
UnknownDiags(diags, cfg) ==
    LET d1 == IF IsUnknown(cfg.Token) THEN Append(diags, UnknownTokenDiag) ELSE diags
    IN  IF IsUnknown(cfg.Owner) THEN Append(d1, UnknownOwnerDiag) ELSE d1

\* variant: a non-empty environment value wins over the configuration
ResolveEnvFirst(cfgValue, fallback) ==
    IF fallback # "" THEN fallback
    ELSE IF ~IsNull(cfgValue) THEN ValueString(cfgValue) ELSE fallback

\* lines 119-128: the environment value, overridden by a non-null
\* configuration value
Resolve(cfgValue, fallback) ==
    IF ~IsNull(cfgValue) THEN ValueString(cfgValue) ELSE fallback

\* variant: the owner check is skipped once the token check has failed
MissingDiagsElseIf(diags, tok, own) ==
    IF tok = "" THEN Append(diags, MissingTokenDiag)
    ELSE IF own = "" THEN Append(diags, MissingOwnerDiag)
    ELSE diags

\* lines 133-151: one attribute error per empty resolved value
MissingDiags(diags, tok, own) ==
    LET d1 == IF tok = "" THEN Append(diags, MissingTokenDiag) ELSE diags
    IN  IF own = "" THEN Append(d1, MissingOwnerDiag) ELSE d1

\* url.Parse of the base URL inside github.NewEnterpriseClient
ParsesAsURL(u) == u = "https://api.github.com/"

\* line 164: github.NewEnterpriseClient(baseURL, uploadURL, &http.Client{}).
\* The http.Client is the zero value: requests carry no Authorization.
NewEnterpriseClient(baseURL, uploadURL) ==
    IF ParsesAsURL(baseURL)
    THEN [client |-> [type |-> "*github.Client", BaseURL |-> baseURL,
                      Authorization |-> ""],
          err |-> "nil"]
    ELSE [client |-> NilData, err |-> "parse error"]

\* variant: the returns after the HasError checks are missing
ConfigureResultNoReturn(cfg, e) ==
    LET d0 == ConfigGet
        d2 == UnknownDiags(d0, cfg)
        tok == Resolve(cfg.Token, e.GITHUB_TOKEN)
        own == Resolve(cfg.Owner, e.GITHUB_OWNER)
        d4 == MissingDiags(d2, tok, own)
        made == NewEnterpriseClient("https://api.github.com/", "")
    IN  [at |-> "configured", token |-> tok, owner |-> own,
         resp |-> [Diagnostics |-> d4, DataSourceData |-> made.client,
                   ResourceData |-> made.client]]

\* lines 82-181: what Configure leaves behind, as a function of its inputs
ConfigureResult(cfg, e) ==
    LET d0 == ConfigGet
        none == [Diagnostics |-> d0, DataSourceData |-> NilData,
                 ResourceData |-> NilData]
    IN
    IF HasError(d0)                                         \* line 87
    THEN [at |-> "get_error", token |-> "", owner |-> "", resp |-> none]
    ELSE
    LET d2 == UnknownDiags(d0, cfg) IN
    IF HasError(d2)                                         \* line 112
    THEN [at |-> "unknown", token |-> "", owner |-> "",
          resp |-> [none EXCEPT !.Diagnostics = d2]]
    ELSE
    LET tok == Resolve(cfg.Token, e.GITHUB_TOKEN)
        own == Resolve(cfg.Owner, e.GITHUB_OWNER)
        d4 == MissingDiags(d2, tok, own)
    IN
    IF HasError(d4)                                         \* line 153
    THEN [at |-> "missing", token |-> tok, owner |-> own,
          resp |-> [none EXCEPT !.Diagnostics = d4]]
    ELSE
    LET made == NewEnterpriseClient("https://api.github.com/", "") IN
    IF made.err # "nil"                                     \* line 165
    THEN [at |-> "client_error", token |-> tok, owner |-> own,
          resp |-> [none EXCEPT !.Diagnostics =
                       Append(d4, AddError("Unable to Create GitHub API Client",
                                           <<"GitHub Client Error: ", made.err>>))]]
    ELSE [at |-> "configured", token |-> tok, owner |-> own,
          resp |-> [Diagnostics |-> d4, DataSourceData |-> made.client,
                    ResourceData |-> made.client]]

ProviderConfigure ==
    /\ pcP = "start"
    /\ LET res == ConfigureResult(config, env) IN
        /\ pcP' = res.at
        /\ token' = res.token
        /\ owner' = res.owner
        /\ provResp' = res.resp
    /\ UNCHANGED <<config, env>>
    /\ UNCHANGED resVars
    /\ UNCHANGED opVars

----------------------------------------------------------------------------
(* all_resource.go: allResource.Configure *)

\* lines 78-95: the receiver and the diagnostics after Configure(req) with
\* req.ProviderData = pd
ConfigureResource(rcv, pd) ==
    IF pd = NilData                                         \* line 79
    THEN [r |-> rcv, Diagnostics |-> <<>>]
    ELSE IF pd.type # "*Config"                             \* line 83
    THEN [r |-> rcv,
          Diagnostics |-> <<AddError("Unexpected Data Source Configure Type",
                                     <<"Expected Config, got: ", pd.type>>)>>]
    ELSE [r |-> [client |-> pd.Client, owner |-> pd.Owner],
          Diagnostics |-> <<>>]

Configured(pd) ==
    /\ ~resCfg.called
    /\ pc = "idle"
    /\ LET res == ConfigureResource(r, pd) IN
        /\ r' = res.r
        /\ resCfg' = [called |-> TRUE, ProviderData |-> pd,
                      Diagnostics |-> res.Diagnostics]
    /\ UNCHANGED provVars
    /\ UNCHANGED opVars

\* The framework hands the provider's ResourceData to the resource.
ResourceConfigure ==
    /\ pcP # "start"
    /\ Configured(provResp.ResourceData)

\* A *Config as allResource.Configure expects it: a client and an owner.
Configs ==
    {[type |-> "*Config",
      Client |-> [type |-> "*github.Client", BaseURL |-> "https://api.github.com/",
                  Authorization |-> ""],
      Owner |-> "acme"]}

\* Configure called with no provider data, or with a *Config.
ResourceConfigureWith ==
    \E pd \in {NilData} \cup Configs : Configured(pd)

----------------------------------------------------------------------------
(* The remote listing and the paginated list call *)

DesiredNames == {"alpha", "beta"}
PlanIds == {Int64Null, Int64Unknown, Int64Value(9)}
RemoteRecords ==
    {[name |-> "alpha", id |-> 1], [name |-> "alpha", id |-> 2],
     [name |-> "gamma", id |-> 3]}
FetchErrors == {"401 Bad credentials", "403 API rate limit exceeded"}

EmptyMap == [n \in {} |-> [ID |-> Int64Null]]

\* map[string]allResourceRepoModel over the given names
Plans == UNION {[S -> [ID : PlanIds]] : S \in SUBSET DesiredNames}

Listings == UNION {[1..n -> RemoteRecords] : n \in 0..MaxRecords}

RECURSIVE Paginate(_, _)
\* listing L served as pages that end after the positions in C
Paginate(L, C) ==
    IF C = {} THEN <<L>>
    ELSE LET c == CHOOSE x \in C : \A y \in C : x <= y
         IN  <<SubSeq(L, 1, c)>> \o
             Paginate(SubSeq(L, c + 1, Len(L)), {y - c : y \in C \ {c}})

\* one answer is a snapshot of the account, where names are unique
OneRecordPerName(page) ==
    \A i, j \in 1..Len(page) : page[i].name = page[j].name => i = j

\* The listings as the service may page them. Pages are separate requests:
\* a repository deleted and created again under its name between two of
\* them can show up on both, with its old and its new id.
Remotes ==
    {pages \in
        {Paginate(L, C) : <<L, C>> \in
            UNION {{<<L, C>> : C \in SUBSET (1..(Len(L) - 1))} : L \in Listings}} :
        \A p \in 1..Len(pages) : OneRecordPerName(pages[p])}

RECURSIVE Flatten(_)
Flatten(pages) ==
    IF pages = <<>> THEN <<>> ELSE Head(pages) \o Flatten(Tail(pages))

\* line 51: what r.client.Repositories.ListByOrg(ctx, org, o) answers when
\* the request goes through: the records of the page asked for and the
\* number of the page after it, 0 on the last one
ListByOrg(org, o) ==
    LET page == IF o.Page = 0 THEN 1 ELSE o.Page
    IN  [repos |-> IF page \in 1..Len(remote) THEN remote[page] ELSE <<>>,
         NextPage |-> IF page < Len(remote) THEN page + 1 ELSE 0]

----------------------------------------------------------------------------
(* all_resource.go: readRepositories *)

\* lines 45-48
InitialOpt == [Sort |-> "full_name", PerPage |-> PerPage, Page |-> 0]

\* variant: the page number is counted up instead of taken from the answer
NextOptIncrement(o, gresp) == [o EXCEPT !.Page = o.Page + 1]

\* line 59
NextOpt(o, gresp) == [o EXCEPT !.Page = gresp.NextPage]

RECURSIVE MergeInsert(_, _)
\* variant: the presence check of line 65 is missing
MergeInsert(stateRepos, repos) ==
    IF repos = <<>> THEN stateRepos
    ELSE LET repo == Head(repos)
             rest == [n \in (DOMAIN stateRepos) \cup {repo.name} |->
                         IF n = repo.name THEN [ID |-> Int64Value(repo.id)]
                         ELSE stateRepos[n]]
         IN  MergeInsert(rest, Tail(repos))

RECURSIVE MergeFirstWins(_, _)
\* variant: the records are applied in reverse order
MergeFirstWins(stateRepos, repos) ==
    IF repos = <<>> THEN stateRepos
    ELSE LET repo == repos[Len(repos)]
         IN  MergeFirstWins(
                 IF repo.name \notin DOMAIN stateRepos THEN stateRepos
                 ELSE [stateRepos EXCEPT ![repo.name] = [ID |-> Int64Value(repo.id)]],
                 SubSeq(repos, 1, Len(repos) - 1))

RECURSIVE MergeIfChanged(_, _)
\* variant: an entry that already holds the fetched id is reset
MergeIfChanged(stateRepos, repos) ==
    IF repos = <<>> THEN stateRepos
    ELSE LET repo == Head(repos)
         IN  MergeIfChanged(
                 IF repo.name \notin DOMAIN stateRepos THEN stateRepos
                 ELSE IF stateRepos[repo.name].ID = Int64Value(repo.id)
                 THEN [stateRepos EXCEPT ![repo.name] = [ID |-> Int64Null]]
                 ELSE [stateRepos EXCEPT ![repo.name] = [ID |-> Int64Value(repo.id)]],
                 Tail(repos))

RECURSIVE Merge(_, _)
\* lines 64-71: for each record in order, overwrite the entry of that name
\* if there is one
Merge(stateRepos, repos) ==
    IF repos = <<>> THEN stateRepos
    ELSE LET repo == Head(repos)
         IN  Merge(
                 IF repo.name \notin DOMAIN stateRepos THEN stateRepos
                 ELSE [stateRepos EXCEPT ![repo.name] = [ID |-> Int64Value(repo.id)]],
                 Tail(repos))

\* variant: each page is merged as soon as it arrives
PageDoneStreaming(st, all, o, gresp) ==
    LET all2 == all \o gresp.repos
    IN  IF gresp.NextPage = 0
        THEN [more |-> FALSE, state |-> Merge(st, gresp.repos), allRepos |-> all2,
              opt |-> o]
        ELSE [more |-> TRUE, state |-> Merge(st, gresp.repos), allRepos |-> all2,
              opt |-> NextOpt(o, gresp)]

\* lines 55-71: one page answered without error: append it, then either
\* leave the loop and merge, or set the next page number
PageDone(st, all, o, gresp) ==
    LET all2 == all \o gresp.repos
    IN  IF gresp.NextPage = 0
        THEN [more |-> FALSE, state |-> Merge(st, all2), allRepos |-> all2, opt |-> o]
        ELSE [more |-> TRUE, state |-> st, allRepos |-> all2,
              opt |-> NextOpt(o, gresp)]

----------------------------------------------------------------------------
(* all_resource.go: Create, Read, Update, Delete *)

NullState == [null |-> TRUE, Repos |-> EmptyMap]
StateOf(m) == [null |-> FALSE, Repos |-> m]

\* req.Plan.Get / req.State.Get into allResourceModel: in these handlers the
\* repos map is known and its ids decode into types.Int64, so decoding adds
\* no diagnostic.
Get == <<>>

ReadErrorDiag(e) ==
    AddError("Error Reading GitHub Repositories",
             <<"Could not read GitHub repositories: ", e>>)

\* variant: the return after AddError is missing
FinishAlwaysSet(rsp, st, e) ==
    IF e # "nil"
    THEN [rsp EXCEPT !.Diagnostics = Append(@, ReadErrorDiag(e)),
                     !.State = StateOf(st), !.set = TRUE]
    ELSE [rsp EXCEPT !.State = StateOf(st), !.set = TRUE]

\* lines 135-148: the response once readRepositories has returned e
Finish(rsp, st, e) ==
    IF e # "nil"
    THEN [rsp EXCEPT !.Diagnostics = Append(@, ReadErrorDiag(e))]
    ELSE [rsp EXCEPT !.State = StateOf(st), !.set = TRUE]

NoReq == [op |-> "none", Repos |-> EmptyMap]
NoResp == [Diagnostics |-> <<>>, State |-> NullState, set |-> FALSE]

\* lines 126-134 (154-162, 182-190): load the map, then enter
\* readRepositories up to its first page request
Start(op, m) ==
    /\ pc = "idle"
    /\ req' = [op |-> op, Repos |-> m]
    /\ resp' = [Diagnostics |-> Get, State |-> stored, set |-> FALSE]
    /\ IF HasError(Get)
       THEN pc' = "done" /\ UNCHANGED <<state, opt>>
       ELSE /\ state' = m
            /\ opt' = InitialOpt
            /\ pc' = IF r.client = NilData THEN "panic" ELSE "fetch"
    /\ allRepos' = <<>>
    /\ calls' = <<>>
    /\ err' = "nil"
    /\ UNCHANGED <<remote, stored>>
    /\ UNCHANGED provVars
    /\ UNCHANGED resVars

Create ==
    /\ stored.null
    /\ \E plan \in Plans : Start("Create", plan)

Read ==
    /\ ~stored.null
    /\ Start("Read", stored.Repos)

Update ==
    /\ ~stored.null
    /\ \E plan \in Plans : Start("Update", plan)

\* line 51-54: the page request fails; readRepositories returns the error
\* and the handler reports it
ListByOrgFails ==
    /\ pc = "fetch"
    /\ \E e \in FetchErrors :
        /\ calls' = Append(calls, [org |-> r.owner, opt |-> opt, err |-> e,
                                   NextPage |-> 0])
        /\ err' = e
        /\ resp' = Finish(resp, state, e)
    /\ pc' = "done"
    /\ UNCHANGED <<remote, stored, req, state, opt, allRepos>>
    /\ UNCHANGED provVars
    /\ UNCHANGED resVars

\* line 51, 55-60 and, after the last page, 64-74 and the handler's
\* State.Set
ListByOrgAnswers ==
    /\ pc = "fetch"
    /\ LET gresp == ListByOrg(r.owner, opt)
           after == PageDone(state, allRepos, opt, gresp)
       IN  /\ calls' = Append(calls, [org |-> r.owner, opt |-> opt, err |-> "nil",
                                      NextPage |-> gresp.NextPage])
           /\ allRepos' = after.allRepos
           /\ state' = after.state
           /\ opt' = after.opt
           /\ IF after.more
              THEN pc' = "fetch" /\ UNCHANGED <<err, resp>>
              ELSE /\ pc' = "done"
                   /\ err' = "nil"
                   /\ resp' = Finish(resp, after.state, "nil")
    /\ UNCHANGED <<remote, stored, req>>
    /\ UNCHANGED provVars
    /\ UNCHANGED resVars

\* lines 208-209: Delete does nothing; with no error diagnostic the
\* framework removes the resource from the state
Delete ==
    /\ pc = "idle"
    /\ ~stored.null
    /\ req' = [op |-> "Delete", Repos |-> stored.Repos]
    /\ resp' = [Diagnostics |-> <<>>, State |-> NullState, set |-> FALSE]
    /\ pc' = "done"
    /\ UNCHANGED <<remote, stored, state, opt, allRepos, calls, err>>
    /\ UNCHANGED provVars
    /\ UNCHANGED resVars

\* the handler has returned: the framework keeps the response's state and
\* the handler's locals are gone
Return ==
    /\ pc = "done"
    /\ stored' = resp.State
    /\ pc' = "idle"
    /\ req' = NoReq
    /\ resp' = NoResp
    /\ state' = EmptyMap
    /\ opt' = InitialOpt
    /\ allRepos' = <<>>
    /\ calls' = <<>>
    /\ err' = "nil"
    /\ UNCHANGED remote
    /\ UNCHANGED provVars
    /\ UNCHANGED resVars

----------------------------------------------------------------------------
(* Specifications *)

ConfigStrings == {StringNull, StringUnknown, StringValue(""), StringValue("cfgtoken")}
OwnerStrings == {StringNull, StringUnknown, StringValue(""), StringValue("cfgowner")}

InitProvider ==
    /\ pcP = "start"
    /\ token = ""
    /\ owner = ""
    /\ provResp = [Diagnostics |-> <<>>, DataSourceData |-> NilData,
                   ResourceData |-> NilData]

InitResource ==
    /\ r = [client |-> NilData, owner |-> ""]
    /\ resCfg = [called |-> FALSE, ProviderData |-> NilData, Diagnostics |-> <<>>]

InitOps ==
    /\ stored = NullState
    /\ pc = "idle"
    /\ req = NoReq
    /\ resp = NoResp
    /\ state = EmptyMap
    /\ opt = InitialOpt
    /\ allRepos = <<>>
    /\ calls = <<>>
    /\ err = "nil"

\* one provider activation, then the resource's Configure
InitConfigure ==
    /\ config \in [Token : ConfigStrings, Owner : OwnerStrings]
    /\ env \in [GITHUB_TOKEN : {"", "envtoken"}, GITHUB_OWNER : {"", "envowner"}]
    /\ InitProvider
    /\ InitResource
    /\ remote = <<<<>>>>
    /\ InitOps

NextConfigure ==
    \/ ProviderConfigure
    \/ ResourceConfigure

SpecConfigure == InitConfigure /\ [][NextConfigure]_vars

\* the resource life cycle against one remote listing
Init ==
    /\ config = [Token |-> StringNull, Owner |-> StringNull]
    /\ env = [GITHUB_TOKEN |-> "", GITHUB_OWNER |-> ""]
    /\ InitProvider
    /\ InitResource
    /\ remote \in Remotes
    /\ InitOps

Next ==
    \/ ResourceConfigureWith
    \/ Create
    \/ Read
    \/ Update
    \/ Delete
    \/ ListByOrgFails
    \/ ListByOrgAnswers
    \/ Return

Spec == Init /\ [][Next]_vars

----------------------------------------------------------------------------
(* Properties of readRepositories and the life-cycle handlers (Spec) *)

Ops == {"Create", "Read", "Update"}
Returned == pc = "done" /\ req.op \in Ops
Succeeded == Returned /\ err = "nil"
Failed == Returned /\ err # "nil"
Listing == Flatten(remote)
NamedIn(seq, k) == {i \in 1..Len(seq) : seq[i].name = k}
Last(S) == CHOOSE i \in S : \A j \in S : j <= i

\* C1: when a page request fails, at whatever page, readRepositories
\* returns that request's error and the map is exactly the map that was
\* loaded: nothing from the pages already fetched has been merged.
C1_AllOrNothing ==
    Failed =>
        /\ state = req.Repos
        /\ err \in FetchErrors
        /\ err = calls[Len(calls)].err

\* a three-page listing whose second request failed after the first page
\* brought a record of a tracked name
C1_Witness ==
    /\ Failed
    /\ Len(remote) = 3
    /\ Len(calls) = 2
    /\ \E i \in 1..Len(allRepos) : allRepos[i].name \in DOMAIN state

\* C2: while and after a handler runs readRepositories, the map has exactly
\* the keys it was loaded with, a Read works on the keys of the stored
\* state, and a state written back has those keys too.
C2_KeySet ==
    (pc \in {"fetch", "done", "panic"} /\ req.op \in Ops) =>
        /\ DOMAIN state = DOMAIN req.Repos
        /\ req.op = "Read" => DOMAIN state = DOMAIN stored.Repos
        /\ resp.set => DOMAIN resp.State.Repos = DOMAIN req.Repos

\* a Read (so a second call) that succeeded with a remote-only name in the
\* listing and a tracked name missing from it
C2_Witness ==
    /\ Succeeded
    /\ req.op = "Read"
    /\ \E i \in 1..Len(allRepos) : allRepos[i].name \notin DOMAIN state
    /\ \E k \in DOMAIN state : NamedIn(Listing, k) = {}

\* C3 as stated: after a successful call every key named by some record of
\* the listing holds that record's id, every other key holds its old value.
C3_AnyRecordsId ==
    Succeeded =>
        \A k \in DOMAIN state :
            IF NamedIn(Listing, k) = {}
            THEN state[k] = req.Repos[k]
            ELSE \A i \in NamedIn(Listing, k) :
                    state[k].ID = Int64Value(Listing[i].id)

\* C3 amended: after a successful call every key named in the listing holds
\* the id of the last record of that name in listing order, every other key
\* holds the value it was loaded with.
C3_LastRecordsId ==
    Succeeded =>
        \A k \in DOMAIN state :
            IF NamedIn(Listing, k) = {}
            THEN state[k] = req.Repos[k]
            ELSE state[k].ID = Int64Value(Listing[Last(NamedIn(Listing, k))].id)

\* a successful call where one tracked name was listed and its stale id
\* overwritten while another tracked name, not listed, kept its id
C3_Witness ==
    /\ Succeeded
    /\ DOMAIN state = {"alpha", "beta"}
    /\ req.Repos["alpha"].ID = Int64Value(9)
    /\ req.Repos["beta"].ID = Int64Value(9)
    /\ state["alpha"].ID = Int64Value(1)
    /\ state["beta"].ID = Int64Value(9)
    /\ Len(remote) = 2

\* C4: the requests of one call all ask for 100 records per page sorted by
\* full name; the first names no page, each later one names the page the
\* previous answer gave as next, and is sent only after an answer that was
\* no error and had a next page. A call that succeeds has sent one request
\* per page and accumulated the whole listing; a call that fails stops at
\* the request that failed.
C4_Pagination ==
    (pc \in {"fetch", "done"} /\ req.op \in Ops) =>
        /\ \A i \in 1..Len(calls) :
              /\ calls[i].opt.PerPage = 100
              /\ calls[i].opt.Sort = "full_name"
              /\ i = 1 => calls[i].opt.Page = 0
              /\ i > 1 => /\ calls[i - 1].err = "nil"
                          /\ calls[i - 1].NextPage # 0
                          /\ calls[i].opt.Page = calls[i - 1].NextPage
        /\ Len(calls) <= Len(remote)
        /\ Succeeded => Len(calls) = Len(remote) /\ allRepos = Listing
        /\ Failed => calls[Len(calls)].err # "nil"

\* a listing of three pages read by three requests
C4_Witness ==
    /\ Succeeded
    /\ Len(remote) = 3
    /\ Len(calls) = 3
    /\ Len(allRepos) = 3

\* C5: a call that succeeds on the map an earlier successful call against
\* the same listing left in the stored state leaves that map as it is.
C5_Idempotent ==
    [][(/\ pc = "fetch"
        /\ pc' = "done"
        /\ err' = "nil"
        /\ ~stored.null
        /\ req.Repos = stored.Repos)
       => (state' = stored.Repos /\ resp'.State = stored)]_vars

\* a Read that succeeded over two pages on a stored map holding an id the
\* earlier call merged
C5_Witness ==
    /\ Succeeded
    /\ req.op = "Read"
    /\ Len(calls) = 2
    /\ "alpha" \in DOMAIN state
    /\ state["alpha"].ID \in {Int64Value(1), Int64Value(2)}
    /\ state = stored.Repos

\* C10: Create and Update load the plan and Read the stored state; a
\* handler whose reconcile failed has added exactly one error diagnostic
\* that carries the error's message and has not touched the response state;
\* a handler whose reconcile succeeded has set the response state to the
\* enriched map and added no diagnostic.
C10_StateWrittenIffSucceeded ==
    Returned =>
        /\ req.op = "Read" => req.Repos = stored.Repos
        /\ Failed =>
              /\ Len(resp.Diagnostics) = 1
              /\ resp.Diagnostics[1].severity = "error"
              /\ resp.Diagnostics[1].summary = "Error Reading GitHub Repositories"
              /\ resp.Diagnostics[1].detail =
                     <<"Could not read GitHub repositories: ", calls[Len(calls)].err>>
              /\ ~resp.set
              /\ resp.State = stored
        /\ Succeeded =>
              /\ resp.Diagnostics = <<>>
              /\ resp.set
              /\ resp.State = [null |-> FALSE, Repos |-> state]

\* an Update whose second page request failed while a stored state exists
C10_Witness ==
    /\ Failed
    /\ req.op = "Update"
    /\ Len(calls) = 2
    /\ req.Repos # stored.Repos
    /\ resp.State = stored

----------------------------------------------------------------------------
(* Properties of the provider's Configure (SpecConfigure) *)

Count(diags, path, summary) ==
    Cardinality({i \in 1..Len(diags) :
                    diags[i].path = path /\ diags[i].summary = summary})
Bit(b) == IF b THEN 1 ELSE 0

\* C6: once Configure has returned, either a client is handed to data
\* sources and resources and there is no diagnostic, or there is at least
\* one error diagnostic and nothing is handed on.
C6_Exclusive ==
    pcP # "start" =>
        \/ /\ provResp.ResourceData # NilData
           /\ provResp.DataSourceData # NilData
           /\ provResp.ResourceData.type = "*github.Client"
           /\ provResp.Diagnostics = <<>>
        \/ /\ provResp.ResourceData = NilData
           /\ provResp.DataSourceData = NilData
           /\ Len(provResp.Diagnostics) >= 1
           /\ HasError(provResp.Diagnostics)

\* a successful activation that took the token from the environment
C6_Witness ==
    /\ pcP = "configured"
    /\ IsNull(config.Token)
    /\ provResp.ResourceData # NilData

C8_Precedence ==
    pcP \in {"missing", "client_error", "configured"} =>
        /\ token = IF config.Token.state = "known" THEN config.Token.value
                   ELSE env.GITHUB_TOKEN
        /\ owner = IF config.Owner.state = "known" THEN config.Owner.value
                   ELSE env.GITHUB_OWNER

\* an empty configured token resolved against a non-empty GITHUB_TOKEN
C8_Witness ==
    /\ pcP = "missing"
    /\ config.Token = [state |-> "known", value |-> ""]
    /\ env.GITHUB_TOKEN = "envtoken"
    /\ token = ""

\* C9: whenever Configure succeeds, what it hands to resources carries the
\* resolved account and a client built with the resolved token, and the
\* resource's Configure accepts it without a diagnostic and takes its
\* owner and client from it.
C9_HandOff ==
    pcP = "configured" =>
        LET pd == provResp.ResourceData IN
        /\ pd.type = "*Config"
        /\ pd.Owner = owner
        /\ pd.Client.Authorization = token
        /\ resCfg.called =>
              /\ resCfg.Diagnostics = <<>>
              /\ r.owner = owner
              /\ r.client = pd.Client

====
